---- MODULE Spec2Model ----
(***************************************************************************)
(* Model of agentic-contracts: the Receipt / ActionRecord / ReceiptFilter  *)
(* types of src/src/receipts.rs, the error model of src/src/errors.rs, the *)
(* grounding results of src/src/grounding.rs, the context snapshots of     *)
(* src/src/context.rs, and the implementations of the traits in            *)
(* src/tests/mock_sisters.rs: MockIdentity (the receipt ledger, Spec),     *)
(* MockMemory and MockCodebase (sessions, workspaces, grounding and        *)
(* snapshots, SpecSisters).  Calls of the ledger run on concurrent         *)
(* threads; a thread is at one of the points where the code can block (a   *)
(* Mutex::lock).                                                           *)
(***************************************************************************)
EXTENDS Integers, Sequences, FiniteSets, TLC

\* Bound: how many create_receipt calls one run makes.
MaxReceipts == 3

\* The concurrent callers of one MockIdentity (&self methods).
Threads == {"t1", "t2"}

\* Utc::now() as a logical clock: it advances by ClockTick from one receipt
\* to the next, so receipts are created at even instants, and the odd
\* instants (the ones filters name) lie strictly between them.
ClockTick == 2

\* A mutex nobody holds.
Free == "free"

\* Option<T>: None is the empty sequence, Some(v) the one-element sequence.
None == <<>>
Some(v) == <<v>>
IsSome(o) == Len(o) = 1
Unwrap(o) == o[1]

Min(a, b) == IF a <= b THEN a ELSE b

----------------------------------------------------------------------------
\* Strings (str::to_lowercase, str::contains), ASCII only.

UpperChars == "ABCDEFGHIJKLMNOPQRSTUVWXYZ"
LowerChars == "abcdefghijklmnopqrstuvwxyz"

\* char::to_lowercase, as a table from each upper-case letter.
LowerTable ==
    [ c \in { SubSeq(UpperChars, i, i) : i \in 1..Len(UpperChars) } |->
        LET i == CHOOSE j \in 1..Len(UpperChars) : SubSeq(UpperChars, j, j) = c
        IN  SubSeq(LowerChars, i, i) ]

LowerChar(c) == IF c \in DOMAIN LowerTable THEN LowerTable[c] ELSE c

RECURSIVE ToLowercase(_)
ToLowercase(s) ==
    IF Len(s) = 0 THEN s
    ELSE LowerChar(SubSeq(s, 1, 1)) \o ToLowercase(SubSeq(s, 2, Len(s)))

Contains(hay, needle) ==
    \E i \in 0..(Len(hay) - Len(needle)) :
        SubSeq(hay, i + 1, i + Len(needle)) = needle

----------------------------------------------------------------------------
\* errors.rs

ErrorCodes ==
    { "NotFound", "InvalidInput", "PermissionDenied", "StorageError",
      "NetworkError", "Timeout", "ResourceExhausted", "Internal",
      "NotImplemented", "ContextNotFound", "EvidenceNotFound",
      "GroundingFailed", "VersionMismatch", "ChecksumMismatch",
      "AlreadyExists", "InvalidState", "MemoryError", "VisionError",
      "CodebaseError", "IdentityError", "TimeError", "ContractError" }

default_severity(code) ==
    CASE code \in {"Internal", "ChecksumMismatch"} -> "Fatal"
      [] code \in {"PermissionDenied", "VersionMismatch"} -> "Error"
      [] code \in {"NotFound", "InvalidInput", "AlreadyExists"} -> "Error"
      [] code \in {"Timeout", "NetworkError", "StorageError"} -> "Error"
      [] code = "ResourceExhausted" -> "Warning"
      [] OTHER -> "Error"

\* is_typically_recoverable with NotFound put in the non-recoverable arm.
is_typically_recoverable_NotFoundFatal(code) ==
    CASE code \in {"Internal", "ChecksumMismatch", "VersionMismatch", "NotFound"} -> FALSE
      [] OTHER -> TRUE

is_typically_recoverable(code) ==
    CASE code \in {"Internal", "ChecksumMismatch", "VersionMismatch"} -> FALSE
      [] OTHER -> TRUE

SisterErrorNew(code, message) ==
    [ code             |-> code,
      severity         |-> default_severity(code),
      message          |-> message,
      recoverable      |-> is_typically_recoverable(code),
      suggested_action |-> None ]

not_found(resource) ==
    [ SisterErrorNew("NotFound", resource \o " not found")
        EXCEPT !.suggested_action = Some("Alternative") ]

\* SisterError::invalid_input
invalid_input(message) == SisterErrorNew("InvalidInput", message)

\* SisterError::permission_denied: new(..).recoverable(false)
permission_denied(message) ==
    [ SisterErrorNew("PermissionDenied", message) EXCEPT !.recoverable = FALSE ]

\* SisterError::internal
internal(message) ==
    [ SisterErrorNew("Internal", message)
        EXCEPT !.severity = "Fatal", !.recoverable = FALSE,
               !.suggested_action = Some("ReportBug") ]

\* SisterError::storage
storage(message) ==
    [ SisterErrorNew("StorageError", message)
        EXCEPT !.suggested_action = Some("Retry") ]

\* SisterError::evidence_not_found: new(..).recoverable(false)
evidence_not_found(evidence_id) ==
    [ SisterErrorNew("EvidenceNotFound", "Evidence " \o evidence_id \o " not found")
        EXCEPT !.recoverable = FALSE ]

\* SisterResult<T>
Ok(v) == [ok |-> TRUE, value |-> v]
Err(e) == [ok |-> FALSE, error |-> e]

----------------------------------------------------------------------------
\* receipts.rs: the data

\* Display for ReceiptId: "rcpt_{uuid}"; a UUID is modelled by its number.
ReceiptIdToString(id) == "rcpt_" \o ToString(id)

\* ActionOutcome, by its serde tag.
Outcomes == {"success", "failure", "partial"}

ActionRecordNew(sister_type, action_type, outcome, ts) ==
    [ sister_type |-> sister_type,
      action_type |-> action_type,
      outcome     |-> outcome,
      context_id  |-> None,
      timestamp   |-> ts ]

in_context(action, context_id) ==
    [action EXCEPT !.context_id = Some(context_id)]

\* The actions callers submit (each built, and stamped, before the run).
ActionRecords ==
    { ActionRecordNew("Memory", "memory_add", "success", 0),
      in_context(ActionRecordNew("Vision", "vision_capture", "success", 0), 1),
      ActionRecordNew("Memory", "vision_capture", "failure", 0) }

\* ReceiptFilter::new(): every criterion unset.
ReceiptFilterNew ==
    [ sister_type |-> None, action_type |-> None, context_id |-> None,
      after |-> None, before |-> None, outcome |-> None,
      limit |-> None, offset |-> None ]

FilterAction(f, action_type) == [f EXCEPT !.action_type = Some(action_type)]

FilterFields ==
    { "sister_type", "action_type", "context_id", "after", "before",
      "outcome", "limit", "offset" }

SetFields(f) == { k \in FilterFields : IsSome(f[k]) }

\* The filters callers pass: at most two fields set, and two only among
\* sister_type, action_type, limit and offset.
ReceiptFilters ==
    { f \in [ sister_type : {None, Some("Memory")},
              action_type : {None, Some("vision_capture")},
              context_id  : {None, Some(1)},
              after       : {None, Some(3)},
              before      : {None, Some(3)},
              outcome     : {None, Some("success")},
              limit       : {None, Some(1)},
              offset      : {None, Some(1)} ] :
        \/ Cardinality(SetFields(f)) <= 1
        \/ /\ Cardinality(SetFields(f)) = 2
           /\ SetFields(f) \subseteq {"sister_type", "action_type", "limit", "offset"} }

----------------------------------------------------------------------------
\* MockIdentity: the state

VARIABLES
    receipts,        \* Mutex<Vec<Receipt>>: the ledger
    chain_position,  \* Mutex<u64>: the position counter
    posLock,         \* holder of the chain_position mutex, or Free
    rcptLock,        \* holder of the receipts mutex, or Free
    pc,              \* pc[t]: where thread t is in its call
    local,           \* local[t]: the call's local variables
    nextId,          \* the next fresh UUID (ReceiptId::new)
    now,             \* the clock: the instant Utc::now() last returned
    ret              \* the call that returned in the last step, and its result
                     \* (NoRet after a step in which no call returned)

\* The other two sisters of mock_sisters.rs.  A run constructs one sister and
\* calls it: the three mocks share no state.
VARIABLES
    sut,               \* what this run constructed
    session_id,        \* MockMemory: Mutex<Option<ContextId>>
    sessions,          \* MockMemory: Mutex<Vec<ContextSummary>>
    events,            \* MockMemory: EventManager.recent
    nodes,             \* MockMemory: Mutex<Vec<(u64, String)>>
    next_id,           \* MockMemory: Mutex<u64>
    current_workspace, \* MockCodebase: Mutex<ContextId>
    workspaces         \* MockCodebase: Mutex<HashMap<ContextId, WorkspaceData>>

\* An EventManager called from several threads, and the third mutex of a
\* MockIdentity.
VARIABLES
    recentLock,        \* EventManager: holder of the recent mutex, or Free
    epc,               \* EventManager: epc[t], where thread t is in its call
    emitted,           \* EventManager: how many events have been pushed so far
    sessLock           \* MockIdentity: holder of the session_id mutex, or Free

memoryVars == <<session_id, sessions, events, nodes, next_id>>
codebaseVars == <<current_workspace, workspaces>>
eventVars == <<recentLock, epc, emitted>>
sisterVars == <<sut, memoryVars, codebaseVars, eventVars, sessLock>>
identityVars == <<receipts, chain_position, posLock, rcptLock, pc, local>>

vars == <<receipts, chain_position, posLock, rcptLock, pc, local, nextId, now, ret,
          sut, session_id, sessions, events, nodes, next_id,
          current_workspace, workspaces, recentLock, epc, emitted, sessLock>>

Sisters == {"identity", "memory", "codebase"}

\* ContextId::default_context(): the nil UUID.  Fresh UUIDs count from 1.
DefaultContext == 0

NoLocal == [op |-> "none"]
NoRet == [op |-> "none"]

GenesisHash == "0000000000000000"
MockSignature == "mock_ed25519_signature"

\* format!("hash_{}", position)
HashOf(position) == "hash_" \o ToString(position)

\* The Receipt literal of create_receipt.
BuildReceipt(receipt_id, action, position, created_at) ==
    [ id             |-> receipt_id,
      action         |-> action,
      signature      |-> MockSignature,
      chain_position |-> position,
      previous_hash  |-> GenesisHash,
      hash           |-> HashOf(position),
      created_at     |-> created_at ]

\* Every field as the constructors leave it: MockIdentity::new,
\* MockMemory::new and MockCodebase::new.
Constructed ==
    /\ receipts = <<>>
    /\ chain_position = 0
    /\ posLock = Free
    /\ rcptLock = Free
    /\ pc = [t \in Threads |-> "idle"]
    /\ local = [t \in Threads |-> NoLocal]
    /\ nextId = 1
    /\ now = 0
    /\ ret = NoRet
    /\ session_id = None
    /\ sessions = <<>>
    /\ events = <<>>
    /\ nodes = <<>>
    /\ next_id = 1
    /\ current_workspace = DefaultContext
    /\ workspaces = (DefaultContext :> [name |-> "default", symbols |-> <<>>])
    /\ recentLock = Free
    /\ epc = [t \in Threads |-> "idle"]
    /\ emitted = 0
    /\ sessLock = Free

\* A run of the ledger: a MockIdentity.
Init == Constructed /\ sut = "identity"

\* A run of one of the other two sisters.
InitSisters == Constructed /\ sut \in {"memory", "codebase"}

----------------------------------------------------------------------------
\* create_receipt

\* let receipt_id = ReceiptId::new(); then the call waits for chain_position.
CreateReceipt(t) ==
    /\ sut = "identity"
    /\ pc[t] = "idle"
    /\ nextId <= MaxReceipts
    /\ nextId' = nextId + 1
    /\ pc' = [pc EXCEPT ![t] = "create_wait_position"]
    /\ local' = [local EXCEPT ![t] = [op |-> "create_receipt", receipt_id |-> nextId]]
    /\ ret' = NoRet
    /\ UNCHANGED <<receipts, chain_position, posLock, rcptLock, now, sisterVars>>

\* The step below without the wait for the chain_position mutex.
CreateLockPositionNoLock(t) ==
    /\ pc[t] = "create_wait_position"
    /\ \E action \in ActionRecords :
        /\ now' = now + ClockTick
        /\ posLock' = t
        /\ chain_position' = chain_position + 1
        /\ local' = [local EXCEPT ![t] =
              [ op |-> "create_receipt",
                receipt |-> BuildReceipt(local[t].receipt_id, action,
                                         chain_position + 1, now + ClockTick) ]]
    /\ pc' = [pc EXCEPT ![t] = "create_wait_receipts"]
    /\ ret' = NoRet
    /\ UNCHANGED <<receipts, rcptLock, nextId, sisterVars>>

\* chain_position.lock(); *position += 1; the Receipt is built (its
\* created_at is Utc::now()); then the call waits for receipts.
CreateLockPosition(t) ==
    /\ pc[t] = "create_wait_position"
    /\ posLock = Free
    /\ \E action \in ActionRecords :
        /\ now' = now + ClockTick
        /\ posLock' = t
        /\ chain_position' = chain_position + 1
        /\ local' = [local EXCEPT ![t] =
              [ op |-> "create_receipt",
                receipt |-> BuildReceipt(local[t].receipt_id, action,
                                         chain_position + 1, now + ClockTick) ]]
    /\ pc' = [pc EXCEPT ![t] = "create_wait_receipts"]
    /\ ret' = NoRet
    /\ UNCHANGED <<receipts, rcptLock, nextId, sisterVars>>

\* The push below without the wait for the receipts mutex.
CreatePushNoLock(t) ==
    /\ pc[t] = "create_wait_receipts"
    /\ receipts' = Append(receipts, local[t].receipt)
    /\ pc' = [pc EXCEPT ![t] = "create_pushed"]
    /\ ret' = NoRet
    /\ UNCHANGED <<chain_position, posLock, rcptLock, local, nextId, now, sisterVars>>

\* self.receipts.lock().unwrap().push(receipt): the guard is a temporary,
\* dropped at the end of the statement.
CreatePush(t) ==
    /\ pc[t] = "create_wait_receipts"
    /\ rcptLock = Free
    /\ receipts' = Append(receipts, local[t].receipt)
    /\ pc' = [pc EXCEPT ![t] = "create_pushed"]
    /\ ret' = NoRet
    /\ UNCHANGED <<chain_position, posLock, rcptLock, local, nextId, now, sisterVars>>

\* Ok(receipt_id); `position` goes out of scope and its mutex is released.
CreateReturn(t) ==
    /\ pc[t] = "create_pushed"
    /\ posLock' = Free
    /\ pc' = [pc EXCEPT ![t] = "idle"]
    /\ local' = [local EXCEPT ![t] = NoLocal]
    /\ ret' = [ op |-> "create_receipt", thread |-> t,
                result |-> Ok(local[t].receipt.id) ]
    /\ UNCHANGED <<receipts, chain_position, rcptLock, nextId, now, sisterVars>>

----------------------------------------------------------------------------
\* The read calls.  Each starts with self.receipts.lock().unwrap() and holds
\* the guard until it returns.  A call's arguments are seen by nobody but the
\* call, so they are drawn in the step that uses them.

ReadOps ==
    { "get_receipt", "list_receipts", "receipt_count", "receipts_for_action",
      "ground", "evidence", "suggest" }

\* seen_len records the ledger's length when the guard was taken (a history
\* value: the code does not store it).
LockReceipts(t, op) ==
    /\ sut = "identity"
    /\ pc[t] = "idle"
    /\ rcptLock = Free
    /\ rcptLock' = t
    /\ pc' = [pc EXCEPT ![t] = op]
    /\ local' = [local EXCEPT ![t] = [op |-> op, seen_len |-> Len(receipts)]]
    /\ ret' = NoRet
    /\ UNCHANGED <<receipts, chain_position, posLock, nextId, now, sisterVars>>

\* What every read call does as it returns: the guard is dropped.
Return(t, r) ==
    /\ rcptLock' = Free
    /\ pc' = [pc EXCEPT ![t] = "idle"]
    /\ local' = [local EXCEPT ![t] = NoLocal]
    /\ ret' = r
    /\ UNCHANGED <<chain_position, posLock, nextId, now, sisterVars>>

\* .iter().find(|r| r.id == id).cloned().ok_or_else(not_found)
FindReceipt(rs, id) ==
    IF \E i \in 1..Len(rs) : rs[i].id = id
    THEN Ok(rs[CHOOSE i \in 1..Len(rs) :
                  rs[i].id = id /\ \A j \in 1..(i - 1) : rs[j].id /= id])
    ELSE Err(not_found("Receipt " \o ReceiptIdToString(id)))

GetReceiptEnd(t) ==
    /\ pc[t] = "get_receipt"
    /\ \E id \in 1..(MaxReceipts + 1) :
        Return(t, [ op |-> "get_receipt", thread |-> t, id |-> id,
                    seen_len |-> local[t].seen_len,
                    result |-> FindReceipt(receipts, id) ])
    /\ UNCHANGED receipts

\* The closure below without its action_type test.
FilterMatchesSisterOnly(r, filter) ==
    IsSome(filter.sister_type) =>
        r.action.sister_type = Unwrap(filter.sister_type)

\* The closure of list_receipts' filter(): sister_type and action_type.
FilterMatches(r, filter) ==
    /\ IsSome(filter.sister_type) =>
          r.action.sister_type = Unwrap(filter.sister_type)
    /\ IsSome(filter.action_type) =>
          r.action.action_type = Unwrap(filter.action_type)

Truncate(s, n) == SubSeq(s, 1, Min(n, Len(s)))

Reverse(s) == [i \in 1..Len(s) |-> s[Len(s) + 1 - i]]

\* list_receipts returning its matches newest first.
ListReceiptsNewestFirst(rs, filter) ==
    LET results == Reverse(SelectSeq(rs, LAMBDA r : FilterMatches(r, filter)))
    IN  IF IsSome(filter.limit)
        THEN Truncate(results, Unwrap(filter.limit))
        ELSE results

\* The body of list_receipts over the locked vector.
ListReceipts(rs, filter) ==
    LET results == SelectSeq(rs, LAMBDA r : FilterMatches(r, filter))
    IN  IF IsSome(filter.limit)
        THEN Truncate(results, Unwrap(filter.limit))
        ELSE results

\* list_receipts filtering and truncating the locked vector itself, not a clone.
ListReceiptsEndDraining(t) ==
    /\ pc[t] = "list_receipts"
    /\ \E filter \in ReceiptFilters :
        /\ receipts' = ListReceipts(receipts, filter)
        /\ Return(t, [ op |-> "list_receipts", thread |-> t, filter |-> filter,
                       seen_len |-> local[t].seen_len,
                       result |-> Ok(ListReceipts(receipts, filter)) ])

ListReceiptsEnd(t) ==
    /\ pc[t] = "list_receipts"
    /\ \E filter \in ReceiptFilters :
        Return(t, [ op |-> "list_receipts", thread |-> t, filter |-> filter,
                    seen_len |-> local[t].seen_len,
                    result |-> Ok(ListReceipts(receipts, filter)) ])
    /\ UNCHANGED receipts

\* self.list_receipts(ReceiptFilter::new()).map(|r| r.len() as u64)
ReceiptCountEnd(t) ==
    /\ pc[t] = "receipt_count"
    /\ Return(t, [ op |-> "receipt_count", thread |-> t,
                   seen_len |-> local[t].seen_len,
                   result |-> Ok(Len(ListReceipts(receipts, ReceiptFilterNew))) ])
    /\ UNCHANGED receipts

ActionTypes == { a.action_type : a \in ActionRecords } \cup {"trust_grant"}

\* self.list_receipts(ReceiptFilter::new().action(action_type))
ReceiptsForActionEnd(t) ==
    /\ pc[t] = "receipts_for_action"
    /\ \E action_type \in ActionTypes :
        Return(t, [ op |-> "receipts_for_action", thread |-> t,
                    action_type |-> action_type,
                    seen_len |-> local[t].seen_len,
                    result |-> Ok(ListReceipts(receipts,
                                    FilterAction(ReceiptFilterNew, action_type))) ])
    /\ UNCHANGED receipts

----------------------------------------------------------------------------
\* grounding.rs and impl Grounding for MockIdentity.  An f64 score or
\* confidence is kept in hundredths (0.9 is 90).

GroundingEvidenceNew(evidence_type, id, score, summary) ==
    [ evidence_type |-> evidence_type, id |-> id, score |-> score,
      summary |-> summary ]

GroundingResultVerified(claim, confidence, ts) ==
    [ status |-> "Verified", claim |-> claim, confidence |-> confidence,
      evidence |-> <<>>, reason |-> "", suggestions |-> <<>>, timestamp |-> ts ]

\* GroundingResult::ungrounded that classifies as Partial.
GroundingResultUngroundedAsPartial(claim, reason, ts) ==
    [ status |-> "Partial", claim |-> claim, confidence |-> 0,
      evidence |-> <<>>, reason |-> reason, suggestions |-> <<>>, timestamp |-> ts ]

GroundingResultUngrounded(claim, reason, ts) ==
    [ status |-> "Ungrounded", claim |-> claim, confidence |-> 0,
      evidence |-> <<>>, reason |-> reason, suggestions |-> <<>>, timestamp |-> ts ]

\* with_evidence that drops the evidence it is given.
with_evidence_dropped(result, evidence) == result

with_evidence(result, evidence) == [result EXCEPT !.evidence = evidence]

\* The claims and queries callers pass.
ClaimStrings == {"memory", "Vision_Capture now", "trust"}

IdentityGround(rs, claim, ts) ==
    LET claim_lower == ToLowercase(claim)
        matches == SelectSeq(rs, LAMBDA r :
            \/ Contains(ToLowercase(r.action.action_type), claim_lower)
            \/ Contains(claim_lower, ToLowercase(r.action.action_type)))
    IN  IF Len(matches) = 0
        THEN GroundingResultUngrounded(claim, "No matching receipts", ts)
        ELSE with_evidence(
                 GroundingResultVerified(claim, 90, ts),
                 [ i \in 1..Len(matches) |->
                     GroundingEvidenceNew("receipt",
                         ReceiptIdToString(matches[i].id), 90,
                         "Receipt for " \o matches[i].action.action_type) ])

GroundEnd(t) ==
    /\ pc[t] = "ground"
    /\ \E claim \in ClaimStrings :
        Return(t, [ op |-> "ground", thread |-> t, claim |-> claim,
                    seen_len |-> local[t].seen_len,
                    result |-> Ok(IdentityGround(receipts, claim, now)) ])
    /\ UNCHANGED receipts

IdentityEvidence(rs, query, max_results) ==
    LET query_lower == ToLowercase(query)
        hits == SelectSeq(rs, LAMBDA r :
            Contains(ToLowercase(r.action.action_type), query_lower))
        taken == Truncate(hits, max_results)
    IN  [ i \in 1..Len(taken) |->
            [ evidence_type |-> "receipt",
              id            |-> ReceiptIdToString(taken[i].id),
              score         |-> 90,
              created_at    |-> taken[i].created_at,
              source_sister |-> "Identity",
              content       |-> taken[i].action.action_type \o " (chain pos "
                                  \o ToString(taken[i].chain_position) \o ")" ] ]

EvidenceEnd(t) ==
    /\ pc[t] = "evidence"
    /\ \E query \in ClaimStrings, max_results \in 0..1 :
        Return(t, [ op |-> "evidence", thread |-> t, query |-> query,
                    max_results |-> max_results,
                    seen_len |-> local[t].seen_len,
                    result |-> Ok(IdentityEvidence(receipts, query, max_results)) ])
    /\ UNCHANGED receipts

IdentitySuggest(rs, query, limit) ==
    LET taken == Truncate(rs, limit)
    IN  [ i \in 1..Len(taken) |->
            [ item_type       |-> "receipt",
              id              |-> ReceiptIdToString(taken[i].id),
              relevance_score |-> 50,
              description     |-> "Action: " \o taken[i].action.action_type ] ]

SuggestEnd(t) ==
    /\ pc[t] = "suggest"
    /\ \E query \in ClaimStrings, limit \in 0..1 :
        Return(t, [ op |-> "suggest", thread |-> t, query |-> query,
                    limit |-> limit,
                    seen_len |-> local[t].seen_len,
                    result |-> Ok(IdentitySuggest(receipts, query, limit)) ])
    /\ UNCHANGED receipts

----------------------------------------------------------------------------
\* Bounds of the MockMemory and MockCodebase runs.

\* How many add_node calls one run makes.
MaxNodes == 4

\* How many sessions one run starts (start_session and import_session).
MaxSessions == 2

\* How many add_symbol calls one run makes.
MaxSymbols == 2

\* How many workspaces one run creates (create_workspace and import_workspace).
MaxWorkspaces == 1

----------------------------------------------------------------------------
\* More of str and serde_json, as far as the mocks use them.

\* str::split_whitespace; the only whitespace the model's strings hold is " ".
RECURSIVE split_whitespace(_)
split_whitespace(s) ==
    IF Len(s) = 0 THEN <<>>
    ELSE IF SubSeq(s, 1, 1) = " " THEN split_whitespace(SubSeq(s, 2, Len(s)))
    ELSE LET end == CHOOSE k \in 1..Len(s) :
                        /\ \A j \in 1..k : SubSeq(s, j, j) /= " "
                        /\ k = Len(s) \/ SubSeq(s, k + 1, k + 1) = " "
         IN  <<SubSeq(s, 1, end)>> \o split_whitespace(SubSeq(s, end + 1, Len(s)))

RECURSIVE JoinComma(_)
JoinComma(items) ==
    IF Len(items) = 0 THEN ""
    ELSE IF Len(items) = 1 THEN items[1]
    ELSE items[1] \o "," \o JoinComma(Tail(items))

\* A JSON string; the model's strings hold nothing that JSON escapes.
JsonString(s) == "\"" \o s \o "\""

\* serde_json::to_vec of a Vec<(u64, String)>: [[1,"a"],[2,"b"]]
NodesToJson(ns) ==
    "[" \o JoinComma([ i \in 1..Len(ns) |->
            "[" \o ToString(ns[i][1]) \o "," \o JsonString(ns[i][2]) \o "]" ])
        \o "]"

\* serde_json::to_vec of a Vec<(String, String)>: [["Foo","struct"]]
SymbolsToJson(syms) ==
    "[" \o JoinComma([ i \in 1..Len(syms) |->
            "[" \o JsonString(syms[i][1]) \o "," \o JsonString(syms[i][2]) \o "]" ])
        \o "]"

\* blake3::hash as an ideal digest: a value that names the bytes it was
\* computed from, so two digests are equal exactly when the bytes are.
Blake3(data) == <<"blake3", data>>

----------------------------------------------------------------------------
\* types.rs, context.rs, events.rs

VersionNew(major, minor, patch) == [major |-> major, minor |-> minor, patch |-> patch]

\* self.major >= file_version.major
can_read(self, file_version) == self.major >= file_version.major

\* Sister::version() of both mocks.
SisterVersion == VersionNew(0, 2, 0)

ContextSummary(id, name, item_count, ts) ==
    [ id |-> id, name |-> name, created_at |-> ts, updated_at |-> ts,
      item_count |-> item_count, size_bytes |-> 0 ]

ContextInfo(id, name, item_count, size_bytes, ts) ==
    [ id |-> id, name |-> name, created_at |-> ts, updated_at |-> ts,
      item_count |-> item_count, size_bytes |-> size_bytes ]

\* The ContextSnapshot literal of export_session and export_workspace.
ContextSnapshot(sister_type, info, data, ts) ==
    [ sister_type  |-> sister_type,
      version      |-> VersionNew(0, 2, 0),
      context_info |-> info,
      data         |-> data,
      checksum     |-> Blake3(data),
      snapshot_at  |-> ts ]

\* ContextSnapshot::verify that accepts whatever checksum it is given.
verify_unchecked(snapshot) == snapshot.checksum = snapshot.checksum

\* ContextSnapshot::verify
verify(snapshot) == Blake3(snapshot.data) = snapshot.checksum

\* SisterEvent::context_created
context_created(sister_type, context_id, name) ==
    [ sister_type |-> sister_type, event_type |-> "ContextCreated",
      context_id |-> context_id, name |-> name ]

\* EventManager.max_recent
MaxRecent == 100

\* EventManager::emit on the recent buffer.
Emit(recent, event) ==
    LET pushed == Append(recent, event)
    IN  IF Len(pushed) > MaxRecent THEN Tail(pushed) ELSE pushed

----------------------------------------------------------------------------
\* MockMemory.  SessionManagement takes &mut self, so the calls of one
\* MockMemory are made one at a time; each call is one step.

GroundingResultPartial(claim, confidence, ts) ==
    [ status |-> "Partial", claim |-> claim, confidence |-> confidence,
      evidence |-> <<>>, reason |-> "", suggestions |-> <<>>, timestamp |-> ts ]

with_suggestions(result, suggestions) == [result EXCEPT !.suggestions = suggestions]

with_reason(result, reason) == [result EXCEPT !.reason = reason]

\* What add_node is called with.
NodeContents == {"Sky is blue", "is the sky"}

\* What start_session is called with.
SessionNames == {"work"}

\* What ground, evidence and suggest are called with.
MemoryClaims == {"sky is", "", "cats"}

\* What is left unchanged by every call of a MockMemory.
NotMemory == <<identityVars, codebaseVars, sut, now, eventVars, sessLock>>

\* add_node
AddNode ==
    /\ sut = "memory"
    /\ Len(nodes) < MaxNodes
    /\ \E content \in NodeContents :
        /\ nodes' = Append(nodes, <<next_id, content>>)
        /\ ret' = [ op |-> "MockMemory::add_node", content |-> content,
                    result |-> next_id ]
    /\ next_id' = next_id + 1
    /\ UNCHANGED <<session_id, sessions, events, nextId, NotMemory>>

\* The body of start_session: a fresh id becomes the current session, its
\* summary is pushed and context_created is emitted.
start_session(name) ==
    /\ session_id' = Some(nextId)
    /\ sessions' = Append(sessions, ContextSummary(nextId, name, 0, now))
    /\ events' = Emit(events, context_created("Memory", nextId, name))
    /\ nextId' = nextId + 1

StartSession ==
    /\ sut = "memory"
    /\ Len(sessions) < MaxSessions
    /\ \E name \in SessionNames :
        /\ start_session(name)
        /\ ret' = [ op |-> "MockMemory::start_session", name |-> name,
                    result |-> Ok(nextId) ]
    /\ UNCHANGED <<nodes, next_id, NotMemory>>

\* end_session that leaves the current session in place.
EndSessionKeeps ==
    /\ sut = "memory"
    /\ ret' = [ op |-> "MockMemory::end_session", result |-> Ok(<<>>) ]
    /\ UNCHANGED <<memoryVars, nextId, NotMemory>>

EndSession ==
    /\ sut = "memory"
    /\ session_id' = None
    /\ ret' = [ op |-> "MockMemory::end_session", result |-> Ok(<<>>) ]
    /\ UNCHANGED <<sessions, events, nodes, next_id, nextId, NotMemory>>

\* current_session: a copy of session_id.
CurrentSession ==
    /\ sut = "memory"
    /\ ret' = [ op |-> "MockMemory::current_session", result |-> session_id ]
    /\ UNCHANGED <<memoryVars, nextId, NotMemory>>

\* list_sessions: a clone of the sessions vector.
ListSessions ==
    /\ sut = "memory"
    /\ ret' = [ op |-> "MockMemory::list_sessions", result |-> Ok(sessions) ]
    /\ UNCHANGED <<memoryVars, nextId, NotMemory>>

current_session_info(sid, ns, ts) ==
    IF sid = None
    THEN Err(SisterErrorNew("InvalidState", "No active session"))
    ELSE Ok(ContextInfo(Unwrap(sid), "active", Len(ns), 0, ts))

\* export_session(_id): the id it is given is not used.
export_session(sid, ns, ts) ==
    LET info == current_session_info(sid, ns, ts)
    IN  IF ~info.ok THEN info
        ELSE Ok(ContextSnapshot("Memory", info.value, NodesToJson(ns), ts))

ExportSession ==
    /\ sut = "memory"
    /\ \E id \in {DefaultContext} \cup { session_id[i] : i \in 1..Len(session_id) } :
        ret' = [ op |-> "MockMemory::export_session", id |-> id,
                 result |-> export_session(session_id, nodes, now) ]
    /\ UNCHANGED <<memoryVars, nextId, NotMemory>>

\* A snapshot's payload with its k-th byte replaced by c.
ChangeByte(data, k, c) == SubSeq(data, 1, k - 1) \o c \o SubSeq(data, k + 1, Len(data))

\* The bytes a changed byte may become.
ByteValues == {"#"}

\* The snapshot with one byte of its payload changed and its checksum kept.
Corruptions(snapshot) ==
    UNION { { [snapshot EXCEPT !.data = ChangeByte(snapshot.data, k, c)] :
                c \in ByteValues \ {SubSeq(snapshot.data, k, k)} } :
            k \in 1..Len(snapshot.data) }

\* The versions a snapshot's file may claim besides the exporter's own.
FileVersions == {VersionNew(0, 1, 0), VersionNew(1, 0, 0)}

\* What a caller may hand to import or verify, starting from a snapshot an
\* export returned: that snapshot, it with one payload byte changed, and it
\* with another version written in (ContextSnapshot's fields are pub).
SnapshotVariants(snapshot) ==
    {snapshot} \cup Corruptions(snapshot)
        \cup { [snapshot EXCEPT !.version = v] : v \in FileVersions }

\* A snapshot exported by another MockMemory that held one node.
ForeignSession == export_session(Some(1), << <<1, "a">> >>, 0).value

MemorySnapshots ==
    LET own == export_session(session_id, nodes, now)
    IN  SnapshotVariants(ForeignSession) \cup (IF own.ok THEN {own.value} ELSE {})

\* import_session that starts the session before it verifies the snapshot.
ImportSessionApplyFirst ==
    /\ sut = "memory"
    /\ Len(sessions) < MaxSessions
    /\ \E snapshot \in MemorySnapshots :
        /\ start_session(snapshot.context_info.name)
        /\ ret' = [ op |-> "MockMemory::import_session", snapshot |-> snapshot,
                    result |-> IF verify(snapshot) THEN Ok(nextId)
                               ELSE Err(SisterErrorNew("ChecksumMismatch",
                                        "Snapshot checksum verification failed")) ]
    /\ UNCHANGED <<nodes, next_id, NotMemory>>

\* import_session: verify, then start_session(&snapshot.context_info.name).
ImportSession ==
    /\ sut = "memory"
    /\ \E snapshot \in MemorySnapshots :
        IF ~verify(snapshot)
        THEN /\ ret' = [ op |-> "MockMemory::import_session", snapshot |-> snapshot,
                         result |-> Err(SisterErrorNew("ChecksumMismatch",
                                        "Snapshot checksum verification failed")) ]
             /\ UNCHANGED <<memoryVars, nextId>>
        ELSE /\ Len(sessions) < MaxSessions
             /\ start_session(snapshot.context_info.name)
             /\ ret' = [ op |-> "MockMemory::import_session", snapshot |-> snapshot,
                         result |-> Ok(nextId) ]
             /\ UNCHANGED <<nodes, next_id>>
    /\ UNCHANGED NotMemory

\* The score below taken over the words of the content, not of the claim.
NodeScoreOverContent(claim_lower, content) ==
    LET claim_words == split_whitespace(claim_lower)
        content_lower == ToLowercase(content)
        content_words == split_whitespace(content_lower)
        matched == Cardinality({ i \in 1..Len(claim_words) :
                                   Contains(content_lower, claim_words[i]) })
        total == IF Len(content_words) >= 1 THEN Len(content_words) ELSE 1
    IN  (matched * 100) \div total

\* The claim words a node's content holds, over all claim words (max(1)),
\* in hundredths.
NodeScore(claim_lower, content) ==
    LET claim_words == split_whitespace(claim_lower)
        content_lower == ToLowercase(content)
        matched == Cardinality({ i \in 1..Len(claim_words) :
                                   Contains(content_lower, claim_words[i]) })
        total == IF Len(claim_words) >= 1 THEN Len(claim_words) ELSE 1
    IN  (matched * 100) \div total

\* .fold(0.0f64, |a, b| a.max(b))
RECURSIVE FoldMax(_)
FoldMax(scores) ==
    IF Len(scores) = 0 THEN 0
    ELSE LET rest == FoldMax(SubSeq(scores, 1, Len(scores) - 1))
             b == scores[Len(scores)]
         IN  IF rest >= b THEN rest ELSE b

\* MockMemory::ground
MemoryGround(ns, claim, ts) ==
    LET claim_lower == ToLowercase(claim)
        matches == SelectSeq(ns, LAMBDA n : Contains(ToLowercase(n[2]), claim_lower))
    IN  IF Len(matches) = 0
        THEN with_suggestions(
                 GroundingResultUngrounded(claim, "No matching memories found", ts),
                 [ i \in 1..Len(Truncate(ns, 3)) |-> ns[i][2] ])
        ELSE LET best_score == FoldMax([ i \in 1..Len(matches) |->
                                           NodeScore(claim_lower, matches[i][2]) ])
                 evidence == [ i \in 1..Len(matches) |->
                     GroundingEvidenceNew("memory_node",
                         "node_" \o ToString(matches[i][1]), best_score,
                         matches[i][2]) ]
             IN  IF best_score > 50
                 THEN with_reason(
                          with_evidence(GroundingResultVerified(claim, best_score, ts),
                                        evidence),
                          "Found matching memories")
                 ELSE with_reason(
                          with_evidence(GroundingResultPartial(claim, best_score, ts),
                                        evidence),
                          "Some evidence found")

MemoryGroundCall ==
    /\ sut = "memory"
    /\ \E claim \in MemoryClaims :
        ret' = [ op |-> "MockMemory::ground", claim |-> claim,
                 result |-> Ok(MemoryGround(nodes, claim, now)) ]
    /\ UNCHANGED <<memoryVars, nextId, NotMemory>>

\* MockMemory::suggest that forgets its limit.
MemorySuggestAll(ns, query, limit) ==
    [ i \in 1..Len(ns) |->
        [ item_type       |-> "memory_node",
          id              |-> "node_" \o ToString(ns[i][1]),
          relevance_score |-> 50,
          description     |-> ns[i][2] ] ]

\* MockMemory::suggest
MemorySuggest(ns, query, limit) ==
    LET taken == Truncate(ns, limit)
    IN  [ i \in 1..Len(taken) |->
            [ item_type       |-> "memory_node",
              id              |-> "node_" \o ToString(taken[i][1]),
              relevance_score |-> 50,
              description     |-> taken[i][2] ] ]

MemorySuggestCall ==
    /\ sut = "memory"
    /\ \E query \in {"cats"}, limit \in 0..MaxNodes :
        ret' = [ op |-> "MockMemory::suggest", query |-> query, limit |-> limit,
                 result |-> Ok(MemorySuggest(nodes, query, limit)) ]
    /\ UNCHANGED <<memoryVars, nextId, NotMemory>>

\* MockMemory::evidence
MemoryEvidence(ns, query, max_results) ==
    LET query_lower == ToLowercase(query)
        hits == SelectSeq(ns, LAMBDA n : Contains(ToLowercase(n[2]), query_lower))
        taken == Truncate(hits, max_results)
    IN  [ i \in 1..Len(taken) |->
            [ evidence_type |-> "memory_node",
              id            |-> "node_" \o ToString(taken[i][1]),
              score         |-> 80,
              source_sister |-> "Memory",
              content       |-> taken[i][2] ] ]

MemoryEvidenceCall ==
    /\ sut = "memory"
    /\ \E query \in {"sky is"}, max_results \in 0..1 :
        ret' = [ op |-> "MockMemory::evidence", query |-> query,
                 max_results |-> max_results,
                 result |-> Ok(MemoryEvidence(nodes, query, max_results)) ]
    /\ UNCHANGED <<memoryVars, nextId, NotMemory>>

NextMemory ==
    \/ AddNode
    \/ StartSession
    \/ EndSession
    \/ CurrentSession
    \/ ListSessions
    \/ ExportSession
    \/ ImportSession
    \/ MemoryGroundCall
    \/ MemoryEvidenceCall
    \/ MemorySuggestCall

----------------------------------------------------------------------------
\* MockCodebase.  WorkspaceManagement takes &mut self; each call is one step.

\* SisterError::context_not_found
context_not_found(context_id) ==
    [ SisterErrorNew("ContextNotFound",
                     "Context " \o ToString(context_id) \o " not found")
        EXCEPT !.suggested_action = Some("Alternative") ]

\* What add_symbol is called with.
SymbolNames == {"Foo"}

\* What create_workspace is called with.
WorkspaceNames == {"ws"}

\* What MockCodebase::ground and suggest are called with.
CodebaseClaims == {"foo exists", "", "baz"}

\* The ids callers name: the workspaces there are, and one there is not.
WorkspaceIds == DOMAIN workspaces \cup {nextId}

\* What is left unchanged by every call of a MockCodebase.
NotCodebase == <<identityVars, memoryVars, sut, now, eventVars, sessLock>>

RECURSIVE SumLen(_)
SumLen(ids) ==
    IF ids = {} THEN 0
    ELSE LET id == CHOOSE i \in ids : TRUE
         IN  Len(workspaces[id].symbols) + SumLen(ids \ {id})

\* add_symbol: a push onto the current workspace's symbols.
AddSymbol ==
    /\ sut = "codebase"
    /\ SumLen(DOMAIN workspaces) < MaxSymbols
    /\ \E name \in SymbolNames, kind \in {"struct"} :
        /\ workspaces' =
              IF current_workspace \in DOMAIN workspaces
              THEN [workspaces EXCEPT ![current_workspace].symbols =
                        Append(@, <<name, kind>>)]
              ELSE workspaces
        /\ ret' = [ op |-> "MockCodebase::add_symbol", name |-> name,
                    result |-> <<>> ]
    /\ UNCHANGED <<current_workspace, nextId, NotCodebase>>

\* The body of create_workspace: a fresh id with no symbols is inserted.
create_workspace(name) ==
    /\ workspaces' = (nextId :> [name |-> name, symbols |-> <<>>]) @@ workspaces
    /\ nextId' = nextId + 1

CreateWorkspace ==
    /\ sut = "codebase"
    /\ nextId <= MaxWorkspaces
    /\ \E name \in WorkspaceNames :
        /\ create_workspace(name)
        /\ ret' = [ op |-> "MockCodebase::create_workspace", name |-> name,
                    result |-> Ok(nextId) ]
    /\ UNCHANGED <<current_workspace, NotCodebase>>

SwitchWorkspace ==
    /\ sut = "codebase"
    /\ \E id \in WorkspaceIds :
        IF id \notin DOMAIN workspaces
        THEN /\ ret' = [ op |-> "MockCodebase::switch_workspace", id |-> id,
                         result |-> Err(context_not_found(id)) ]
             /\ UNCHANGED current_workspace
        ELSE /\ current_workspace' = id
             /\ ret' = [ op |-> "MockCodebase::switch_workspace", id |-> id,
                         result |-> Ok(<<>>) ]
    /\ UNCHANGED <<workspaces, nextId, NotCodebase>>

\* current_workspace: a copy of the current id.
CurrentWorkspace ==
    /\ sut = "codebase"
    /\ ret' = [ op |-> "MockCodebase::current_workspace",
                result |-> current_workspace ]
    /\ UNCHANGED <<codebaseVars, nextId, NotCodebase>>

\* The orders a HashMap over the keys ids may be iterated in.
IterationOrders(ids) ==
    { order \in [1..Cardinality(ids) -> ids] :
        \A i, j \in 1..Cardinality(ids) : order[i] = order[j] => i = j }

\* list_workspaces: one ContextSummary per entry, in the map's iteration order.
ListWorkspaces ==
    /\ sut = "codebase"
    /\ \E order \in IterationOrders(DOMAIN workspaces) :
        ret' = [ op |-> "MockCodebase::list_workspaces",
                 result |-> Ok([ i \in 1..Len(order) |->
                     ContextSummary(order[i], workspaces[order[i]].name,
                                    Len(workspaces[order[i]].symbols), now) ]) ]
    /\ UNCHANGED <<codebaseVars, nextId, NotCodebase>>

\* The workspaces without the entry of id: HashMap::remove.
Remove(wss, id) == [ k \in DOMAIN wss \ {id} |-> wss[k] ]

\* delete_workspace without the test for the active workspace.
DeleteWorkspaceUnchecked ==
    /\ sut = "codebase"
    /\ \E id \in WorkspaceIds :
        /\ workspaces' = Remove(workspaces, id)
        /\ ret' = [ op |-> "MockCodebase::delete_workspace", id |-> id,
                    result |-> Ok(<<>>) ]
    /\ UNCHANGED <<current_workspace, nextId, NotCodebase>>

\* delete_workspace: refused for the current workspace, a remove otherwise.
DeleteWorkspace ==
    /\ sut = "codebase"
    /\ \E id \in WorkspaceIds :
        IF id = current_workspace
        THEN /\ ret' = [ op |-> "MockCodebase::delete_workspace", id |-> id,
                         result |-> Err(SisterErrorNew("InvalidState",
                                        "Cannot delete active workspace. Switch first")) ]
             /\ UNCHANGED workspaces
        ELSE /\ workspaces' = Remove(workspaces, id)
             /\ ret' = [ op |-> "MockCodebase::delete_workspace", id |-> id,
                         result |-> Ok(<<>>) ]
    /\ UNCHANGED <<current_workspace, nextId, NotCodebase>>

\* rename_workspace
RenameWorkspace ==
    /\ sut = "codebase"
    /\ \E id \in WorkspaceIds, new_name \in WorkspaceNames :
        IF id \in DOMAIN workspaces
        THEN /\ workspaces' = [workspaces EXCEPT ![id].name = new_name]
             /\ ret' = [ op |-> "MockCodebase::rename_workspace", id |-> id,
                         new_name |-> new_name, result |-> Ok(<<>>) ]
        ELSE /\ ret' = [ op |-> "MockCodebase::rename_workspace", id |-> id,
                         new_name |-> new_name,
                         result |-> Err(context_not_found(id)) ]
             /\ UNCHANGED workspaces
    /\ UNCHANGED <<current_workspace, nextId, NotCodebase>>

export_workspace(wss, id, ts) ==
    IF id \notin DOMAIN wss
    THEN Err(context_not_found(id))
    ELSE LET data == SymbolsToJson(wss[id].symbols)
         IN  Ok(ContextSnapshot("Codebase",
                    ContextInfo(id, wss[id].name, Len(wss[id].symbols),
                                Len(data), ts),
                    data, ts))

ExportWorkspace ==
    /\ sut = "codebase"
    /\ \E id \in WorkspaceIds :
        ret' = [ op |-> "MockCodebase::export_workspace", id |-> id,
                 result |-> export_workspace(workspaces, id, now) ]
    /\ UNCHANGED <<codebaseVars, nextId, NotCodebase>>

\* A snapshot exported by another MockCodebase whose workspace held one symbol.
ForeignWorkspace ==
    export_workspace(1 :> [name |-> "lib", symbols |-> << <<"f", "fn">> >>], 1, 0).value

CodebaseSnapshots ==
    LET own == export_workspace(workspaces, current_workspace, now)
    IN  SnapshotVariants(ForeignWorkspace) \cup (IF own.ok THEN {own.value} ELSE {})

\* import_workspace that creates the workspace before it verifies the snapshot.
ImportWorkspaceApplyFirst ==
    /\ sut = "codebase"
    /\ nextId <= MaxWorkspaces
    /\ \E snapshot \in CodebaseSnapshots :
        /\ create_workspace(snapshot.context_info.name)
        /\ ret' = [ op |-> "MockCodebase::import_workspace", snapshot |-> snapshot,
                    result |-> IF verify(snapshot) THEN Ok(nextId)
                               ELSE Err(SisterErrorNew("ChecksumMismatch",
                                        "Snapshot checksum failed")) ]
    /\ UNCHANGED <<current_workspace, NotCodebase>>

\* import_workspace: verify, then create_workspace(&snapshot.context_info.name).
ImportWorkspace ==
    /\ sut = "codebase"
    /\ \E snapshot \in CodebaseSnapshots :
        IF ~verify(snapshot)
        THEN /\ ret' = [ op |-> "MockCodebase::import_workspace", snapshot |-> snapshot,
                         result |-> Err(SisterErrorNew("ChecksumMismatch",
                                        "Snapshot checksum failed")) ]
             /\ UNCHANGED <<workspaces, nextId>>
        ELSE /\ nextId <= MaxWorkspaces
             /\ create_workspace(snapshot.context_info.name)
             /\ ret' = [ op |-> "MockCodebase::import_workspace", snapshot |-> snapshot,
                         result |-> Ok(nextId) ]
    /\ UNCHANGED <<current_workspace, NotCodebase>>

\* MockCodebase::ground over the current workspace.
CodebaseGround(wss, ws_id, claim, ts) ==
    IF ws_id \notin DOMAIN wss
    THEN Err(context_not_found(ws_id))
    ELSE LET symbols == wss[ws_id].symbols
             claim_lower == ToLowercase(claim)
             matches == SelectSeq(symbols, LAMBDA sym :
                            Contains(claim_lower, ToLowercase(sym[1])))
         IN  IF Len(matches) = 0
             THEN Ok(GroundingResultUngrounded(claim, "Symbol not found in graph", ts))
             ELSE Ok(with_reason(
                      with_evidence(GroundingResultVerified(claim, 90, ts),
                          [ i \in 1..Len(matches) |->
                              GroundingEvidenceNew("code_symbol", matches[i][1], 90,
                                  matches[i][2] \o ": " \o matches[i][1]) ]),
                      "Symbol found in code graph"))

CodebaseGroundCall ==
    /\ sut = "codebase"
    /\ \E claim \in CodebaseClaims :
        ret' = [ op |-> "MockCodebase::ground", claim |-> claim,
                 result |-> CodebaseGround(workspaces, current_workspace, claim, now) ]
    /\ UNCHANGED <<codebaseVars, nextId, NotCodebase>>

\* MockCodebase::suggest over the current workspace.
CodebaseSuggest(wss, ws_id, query, limit) ==
    IF ws_id \notin DOMAIN wss
    THEN Err(context_not_found(ws_id))
    ELSE LET taken == Truncate(wss[ws_id].symbols, limit)
         IN  Ok([ i \in 1..Len(taken) |->
                    [ item_type       |-> "code_symbol",
                      id              |-> taken[i][1],
                      relevance_score |-> 50,
                      description     |-> taken[i][2] \o ": " \o taken[i][1] ] ])

CodebaseSuggestCall ==
    /\ sut = "codebase"
    /\ \E query \in {"baz"}, limit \in 0..MaxSymbols :
        ret' = [ op |-> "MockCodebase::suggest", query |-> query, limit |-> limit,
                 result |-> CodebaseSuggest(workspaces, current_workspace, query, limit) ]
    /\ UNCHANGED <<codebaseVars, nextId, NotCodebase>>

NextCodebase ==
    \/ AddSymbol
    \/ CreateWorkspace
    \/ SwitchWorkspace
    \/ CurrentWorkspace
    \/ ListWorkspaces
    \/ DeleteWorkspace
    \/ RenameWorkspace
    \/ ExportWorkspace
    \/ ImportWorkspace
    \/ CodebaseGroundCall
    \/ CodebaseSuggestCall

\* A run of a MockMemory or of a MockCodebase.
NextSisters == NextMemory \/ NextCodebase

SpecSisters == InitSisters /\ [][NextSisters]_vars

----------------------------------------------------------------------------
\* EventManager: emit and recent called by several threads on one manager.
\* An event is known by its id; ids are given in the order of the pushes.

\* How many events a run emits.
MaxEmits == 101

\* What recent is called with.
RecentLimits == {0, 1, MaxRecent, MaxRecent + 1}

\* What is left unchanged by every call of an EventManager.
NotEvents == <<identityVars, nextId, now, sut, session_id, sessions, nodes,
               next_id, codebaseVars, sessLock>>

\* emit: self.recent.lock()
EmitLock(t) ==
    /\ sut = "events"
    /\ epc[t] = "idle"
    /\ emitted < MaxEmits
    /\ recentLock = Free
    /\ recentLock' = t
    /\ epc' = [epc EXCEPT ![t] = "emit_push"]
    /\ ret' = NoRet
    /\ UNCHANGED <<events, emitted, NotEvents>>

\* emit: recent.push(event.clone())
EmitPush(t) ==
    /\ epc[t] = "emit_push"
    /\ events' = Append(events, [id |-> emitted + 1])
    /\ emitted' = emitted + 1
    /\ epc' = [epc EXCEPT ![t] = "emit_trim"]
    /\ ret' = NoRet
    /\ UNCHANGED <<recentLock, NotEvents>>

\* emit that never removes the oldest event.
EmitTrimKeeps(t) ==
    /\ epc[t] = "emit_trim"
    /\ recentLock' = Free
    /\ epc' = [epc EXCEPT ![t] = "emit_send"]
    /\ ret' = NoRet
    /\ UNCHANGED <<events, emitted, NotEvents>>

\* emit: if recent.len() > self.max_recent { recent.remove(0) }, and the
\* guard is dropped at the end of the block.
EmitTrim(t) ==
    /\ epc[t] = "emit_trim"
    /\ events' = IF Len(events) > MaxRecent THEN Tail(events) ELSE events
    /\ recentLock' = Free
    /\ epc' = [epc EXCEPT ![t] = "emit_send"]
    /\ ret' = NoRet
    /\ UNCHANGED <<emitted, NotEvents>>

\* emit: let _ = self.sender.send(event), and the call returns.
EmitSend(t) ==
    /\ epc[t] = "emit_send"
    /\ epc' = [epc EXCEPT ![t] = "idle"]
    /\ ret' = [ op |-> "EventManager::emit", thread |-> t ]
    /\ UNCHANGED <<events, recentLock, emitted, NotEvents>>

\* recent: self.recent.lock()
RecentLock(t) ==
    /\ sut = "events"
    /\ epc[t] = "idle"
    /\ recentLock = Free
    /\ recentLock' = t
    /\ epc' = [epc EXCEPT ![t] = "recent"]
    /\ ret' = NoRet
    /\ UNCHANGED <<events, emitted, NotEvents>>

\* recent.iter().rev().take(limit).cloned().collect()
Recent(recent, limit) == Truncate(Reverse(recent), limit)

\* recent(limit) returns and its guard is dropped.
RecentEnd(t) ==
    /\ epc[t] = "recent"
    /\ \E limit \in RecentLimits :
        ret' = [ op |-> "EventManager::recent", thread |-> t, limit |-> limit,
                 result |-> Recent(events, limit) ]
    /\ recentLock' = Free
    /\ epc' = [epc EXCEPT ![t] = "idle"]
    /\ UNCHANGED <<events, emitted, NotEvents>>

InitEvents == Constructed /\ sut = "events"

NextEvents ==
    \E t \in Threads :
        \/ EmitLock(t)
        \/ EmitPush(t)
        \/ EmitTrim(t)
        \/ EmitSend(t)
        \/ RecentLock(t)
        \/ RecentEnd(t)

SpecEvents == InitEvents /\ [][NextEvents]_vars

----------------------------------------------------------------------------
\* SisterError: a run that only creates errors.

\* The messages, resource names and ids the constructors are given.
ErrorMessages == {"a", "b", "c", "d"}

\* The constructors besides SisterError::new.
ErrorConstructors ==
    { "SisterError::not_found", "SisterError::invalid_input",
      "SisterError::permission_denied", "SisterError::internal",
      "SisterError::storage", "SisterError::context_not_found",
      "SisterError::evidence_not_found" }

Construct(constructor, message) ==
    CASE constructor = "SisterError::not_found" -> not_found(message)
      [] constructor = "SisterError::invalid_input" -> invalid_input(message)
      [] constructor = "SisterError::permission_denied" -> permission_denied(message)
      [] constructor = "SisterError::internal" -> internal(message)
      [] constructor = "SisterError::storage" -> storage(message)
      [] constructor = "SisterError::context_not_found" ->
             [ SisterErrorNew("ContextNotFound", "Context " \o message \o " not found")
                 EXCEPT !.suggested_action = Some("Alternative") ]
      [] constructor = "SisterError::evidence_not_found" -> evidence_not_found(message)

\* SisterError::new(code, message)
ErrorNew ==
    /\ sut = "errors"
    /\ \E code \in ErrorCodes, message \in ErrorMessages :
        ret' = [ op |-> "SisterError::new", code |-> code, message |-> message,
                 result |-> SisterErrorNew(code, message) ]
    /\ UNCHANGED <<identityVars, nextId, now, sisterVars>>

\* One of the common error constructors.
ErrorConstruct ==
    /\ sut = "errors"
    /\ \E constructor \in ErrorConstructors, message \in ErrorMessages :
        ret' = [ op |-> constructor, message |-> message,
                 result |-> Construct(constructor, message) ]
    /\ UNCHANGED <<identityVars, nextId, now, sisterVars>>

InitErrors == Constructed /\ sut = "errors"

NextErrors == ErrorNew \/ ErrorConstruct

SpecErrors == InitErrors /\ [][NextErrors]_vars

----------------------------------------------------------------------------
\* MockIdentity's sessions.  start_session and end_session take &mut self, so
\* they run while no other call is in progress; current_session_info takes
\* &self and runs beside the receipt calls.

AllIdle == \A t \in Threads : pc[t] = "idle"

\* start_session: *self.session_id.lock().unwrap() = Some(ContextId::new())
IdentityStartSession ==
    /\ sut = "identity"
    /\ AllIdle
    /\ nextId <= MaxReceipts
    /\ session_id' = Some(nextId)
    /\ nextId' = nextId + 1
    /\ ret' = [ op |-> "MockIdentity::start_session", result |-> Ok(nextId) ]
    /\ UNCHANGED <<identityVars, now, sut, sessions, events, nodes, next_id,
                   codebaseVars, eventVars, sessLock>>

\* end_session: *self.session_id.lock().unwrap() = None
IdentityEndSession ==
    /\ sut = "identity"
    /\ AllIdle
    /\ session_id /= None
    /\ session_id' = None
    /\ ret' = [ op |-> "MockIdentity::end_session", result |-> Ok(<<>>) ]
    /\ UNCHANGED <<identityVars, nextId, now, sut, sessions, events, nodes,
                   next_id, codebaseVars, eventVars, sessLock>>

\* What is left unchanged by every step of current_session_info besides the
\* locks and the thread's position.
NotSessionInfo == <<receipts, chain_position, posLock, nextId, now, sut,
                    memoryVars, codebaseVars, eventVars>>

\* current_session_info calls current_session(): self.session_id.lock()
SessionInfoLock(t) ==
    /\ sut = "identity"
    /\ pc[t] = "idle"
    /\ sessLock = Free
    /\ sessLock' = t
    /\ pc' = [pc EXCEPT ![t] = "session_locked"]
    /\ local' = [local EXCEPT ![t] = [op |-> "current_session_info"]]
    /\ ret' = NoRet
    /\ UNCHANGED <<rcptLock, NotSessionInfo>>

\* The step below with the session_id guard never dropped.
SessionInfoReadKeepsGuard(t) ==
    /\ pc[t] = "session_locked"
    /\ IF session_id = None
       THEN /\ pc' = [pc EXCEPT ![t] = "idle"]
            /\ local' = [local EXCEPT ![t] = NoLocal]
            /\ ret' = [ op |-> "current_session_info", thread |-> t,
                        result |-> Err(SisterErrorNew("InvalidState",
                                                      "No active session")) ]
       ELSE /\ pc' = [pc EXCEPT ![t] = "session_wait_receipts"]
            /\ local' = [local EXCEPT ![t] =
                            [op |-> "current_session_info", id |-> Unwrap(session_id)]]
            /\ ret' = NoRet
    /\ UNCHANGED <<sessLock, rcptLock, NotSessionInfo>>

\* current_session() returns a copy of the id and drops its guard;
\* ok_or_else(..)? returns the error if there is no session.
SessionInfoRead(t) ==
    /\ pc[t] = "session_locked"
    /\ sessLock' = Free
    /\ IF session_id = None
       THEN /\ pc' = [pc EXCEPT ![t] = "idle"]
            /\ local' = [local EXCEPT ![t] = NoLocal]
            /\ ret' = [ op |-> "current_session_info", thread |-> t,
                        result |-> Err(SisterErrorNew("InvalidState",
                                                      "No active session")) ]
       ELSE /\ pc' = [pc EXCEPT ![t] = "session_wait_receipts"]
            /\ local' = [local EXCEPT ![t] =
                            [op |-> "current_session_info", id |-> Unwrap(session_id)]]
            /\ ret' = NoRet
    /\ UNCHANGED <<rcptLock, NotSessionInfo>>

\* item_count: self.receipts.lock().unwrap().len()
SessionInfoLockReceipts(t) ==
    /\ pc[t] = "session_wait_receipts"
    /\ rcptLock = Free
    /\ rcptLock' = t
    /\ pc' = [pc EXCEPT ![t] = "current_session_info"]
    /\ local' = [local EXCEPT ![t] = [ op |-> "current_session_info",
                                        id |-> local[t].id,
                                        item_count |-> Len(receipts) ]]
    /\ ret' = NoRet
    /\ UNCHANGED <<sessLock, NotSessionInfo>>

\* Ok(ContextInfo { .. }): the receipts guard is dropped as the call returns.
SessionInfoEnd(t) ==
    /\ pc[t] = "current_session_info"
    /\ rcptLock' = Free
    /\ pc' = [pc EXCEPT ![t] = "idle"]
    /\ local' = [local EXCEPT ![t] = NoLocal]
    /\ ret' = [ op |-> "current_session_info", thread |-> t,
                result |-> Ok(ContextInfo(local[t].id, "identity_session",
                                          local[t].item_count, 0, now)) ]
    /\ UNCHANGED <<sessLock, NotSessionInfo>>

\* The calls that run side by side on one MockIdentity.
ConcurrentReadOps == {"get_receipt", "list_receipts", "ground", "evidence", "suggest"}

\* A read call returns and its receipts guard is dropped.  What the call
\* returns has no part in which mutex is held, so it is left out here: the
\* actions GetReceiptEnd to SuggestEnd above are these returns with their
\* results.
ReadReturn(t) ==
    /\ pc[t] \in ConcurrentReadOps
    /\ Return(t, [ op |-> pc[t], thread |-> t ])
    /\ UNCHANGED receipts

\* A step of a call of thread t that is in progress.
Continue(t) ==
    \/ CreateLockPosition(t)
    \/ CreatePush(t)
    \/ CreateReturn(t)
    \/ ReadReturn(t)
    \/ SessionInfoRead(t)
    \/ SessionInfoLockReceipts(t)
    \/ SessionInfoEnd(t)

\* A call of thread t starts.
Begin(t) ==
    \/ CreateReceipt(t)
    \/ \E op \in ConcurrentReadOps : LockReceipts(t, op)
    \/ SessionInfoLock(t)

NextLocks ==
    \/ IdentityStartSession
    \/ IdentityEndSession
    \/ \E t \in Threads : Begin(t) \/ Continue(t)

\* Every thread is scheduled again and again, and a thread that waits for a
\* mutex that is free again and again gets it in the end.
SpecLocks ==
    /\ Init
    /\ [][NextLocks]_vars
    /\ \A t \in Threads : SF_vars(Continue(t))

----------------------------------------------------------------------------
Next ==
    \E t \in Threads :
        \/ CreateReceipt(t)
        \/ CreateLockPosition(t)
        \/ CreatePush(t)
        \/ CreateReturn(t)
        \/ \E op \in ReadOps : LockReceipts(t, op)
        \/ GetReceiptEnd(t)
        \/ ListReceiptsEnd(t)
        \/ ReceiptCountEnd(t)
        \/ ReceiptsForActionEnd(t)
        \/ GroundEnd(t)
        \/ EvidenceEnd(t)
        \/ SuggestEnd(t)

Spec == Init /\ [][Next]_vars

----------------------------------------------------------------------------
\* The claims about the ledger

IsPrefix(a, b) == Len(a) <= Len(b) /\ SubSeq(b, 1, Len(a)) = a

Range(s) == { s[i] : i \in 1..Len(s) }

\* The ledger a read call saw: its guard was taken at length seen_len.
LedgerSeen == SubSeq(receipts, 1, ret.seen_len)

\* C1: the stored receipts' chain_position values are exactly 1, 2, ..., n
\* in ledger order, whatever the interleaving of the callers; the counter is
\* the number of stored receipts, plus one while an append holds it.
Claim_C1_PositionsGapless ==
    /\ \A i \in 1..Len(receipts) : receipts[i].chain_position = i
    /\ chain_position = Len(receipts)
          + Cardinality({ t \in Threads : pc[t] = "create_wait_receipts" })

\* Two callers raced: the one that took its id second was appended first.
Witness_C1_RacedAppends ==
    /\ Len(receipts) >= 2
    /\ receipts[2].id < receipts[1].id

\* C2: the receipt at position n > 1 has previous_hash equal to the hash of
\* the receipt at position n - 1, and the first has the genesis value.
Claim_C2_PreviousHashLinks ==
    \A i \in 1..Len(receipts) :
        receipts[i].previous_hash =
            IF i = 1 THEN GenesisHash ELSE receipts[i - 1].hash

\* Recomputing the chain from genesis: create_receipt's hash rule, applied
\* again to each receipt of rs in order.
RecomputeChain(rs) ==
    [ i \in 1..Len(rs) |->
        BuildReceipt(rs[i].id, rs[i].action, i, rs[i].created_at).hash ]

Tampered(rs, k, action) == [rs EXCEPT ![k].action = action]

\* C3: every stored hash is the recomputed one, and changing the action of
\* an earlier receipt r_k (k < n) and recomputing the chain from genesis
\* gives a tail hash other than the stored tail hash.
Claim_C3_TamperChangesTail ==
    LET n == Len(receipts) IN
    /\ \A i \in 1..n : receipts[i].hash = RecomputeChain(receipts)[i]
    /\ \A k \in 1..(n - 1) :
          \A action \in ActionRecords \ {receipts[k].action} :
              RecomputeChain(Tampered(receipts, k, action))[n] /= receipts[n].hash

\* C4: the ledger is append-only: every step of every call leaves the
\* ledger it found as a prefix of the ledger it leaves.
Claim_C4_AppendOnly == [][IsPrefix(receipts, receipts')]_vars

\* A grounding call has returned over a ledger that has grown to two.
Witness_C4_ReadAfterAppends ==
    /\ Len(receipts) >= 2
    /\ ret.op = "ground"
    /\ ret.result.value.status = "Verified"

Complete(r) ==
    /\ r.chain_position >= 1
    /\ r.previous_hash /= ""
    /\ r.hash /= ""
    /\ r.signature /= ""

\* C6: a receipt a reader obtains is a stored receipt with chain_position,
\* previous_hash, hash and signature set, and the list a reader obtains is
\* list_receipts of the ledger as it was when the reader took the lock.
Claim_C6_ReadersSeeSnapshot ==
    /\ \A i \in 1..Len(receipts) : Complete(receipts[i])
    /\ (ret.op = "get_receipt" /\ ret.result.ok) =>
          /\ ret.result.value \in Range(LedgerSeen)
          /\ Complete(ret.result.value)
    /\ ret.op = "list_receipts" =>
          /\ ret.seen_len <= Len(receipts)
          /\ ret.result.value = ListReceipts(LedgerSeen, ret.filter)
          /\ \A i \in 1..Len(ret.result.value) : Complete(ret.result.value[i])
          /\ ret.filter = ReceiptFilterNew => ret.result.value = LedgerSeen

\* A reader got the whole two-receipt ledger while an append was under way.
Witness_C6_ListDuringAppend ==
    /\ ret.op = "list_receipts"
    /\ ret.filter = ReceiptFilterNew
    /\ Len(ret.result.value) >= 2
    /\ \E t \in Threads : pc[t] = "create_wait_receipts"

\* C7: whenever a get_receipt call returns, the ledger is as it was, and
\* the result is the stored receipt with that id if there is one, and
\* otherwise a NotFound error whose recoverable flag is true.
Claim_C7_GetReceipt ==
    [][ \A t \in Threads :
          (pc[t] = "get_receipt" /\ pc'[t] = "idle") =>
              /\ receipts' = receipts
              /\ ret'.op = "get_receipt"
              /\ IF \E r \in Range(receipts) : r.id = ret'.id
                 THEN /\ ret'.result.ok
                      /\ ret'.result.value \in Range(receipts)
                      /\ ret'.result.value.id = ret'.id
                 ELSE /\ ~ret'.result.ok
                      /\ ret'.result.error.code = "NotFound"
                      /\ ret'.result.error.recoverable = TRUE ]_vars

\* get_receipt has failed for an unknown id on a ledger that is not empty.
Witness_C7_UnknownId ==
    /\ ret.op = "get_receipt"
    /\ ~ret.result.ok
    /\ Len(receipts) >= 1

\* What each criterion of a ReceiptFilter asks of a receipt.
Satisfies(r, filter) ==
    /\ IsSome(filter.sister_type) =>
          r.action.sister_type = Unwrap(filter.sister_type)
    /\ IsSome(filter.action_type) =>
          r.action.action_type = Unwrap(filter.action_type)
    /\ IsSome(filter.context_id) => r.action.context_id = filter.context_id
    /\ IsSome(filter.after) => r.created_at > Unwrap(filter.after)
    /\ IsSome(filter.before) => r.created_at < Unwrap(filter.before)
    /\ IsSome(filter.outcome) => r.action.outcome = Unwrap(filter.outcome)

\* C8: list_receipts filters conjunctively on all six criteria: a receipt
\* is in the result only if it satisfies every criterion that is set, and
\* without pagination every receipt that satisfies them is in the result.
Claim_C8_ConjunctiveFilter ==
    ret.op = "list_receipts" =>
        /\ \A r \in Range(ret.result.value) : Satisfies(r, ret.filter)
        /\ (ret.filter.limit = None /\ ret.filter.offset = None) =>
              \A r \in Range(LedgerSeen) :
                  Satisfies(r, ret.filter) => r \in Range(ret.result.value)

Skip(s, n) == SubSeq(s, Min(n, Len(s)) + 1, Len(s))

\* C9: the result is the sequence of receipts matching the filter, with the
\* first `offset` entries skipped and then at most `limit` entries kept.
Claim_C9_LimitAndOffset ==
    ret.op = "list_receipts" =>
        LET matching == ListReceipts(LedgerSeen,
                [ret.filter EXCEPT !.limit = None, !.offset = None])
            skipped == IF IsSome(ret.filter.offset)
                       THEN Skip(matching, Unwrap(ret.filter.offset))
                       ELSE matching
        IN  ret.result.value =
                IF IsSome(ret.filter.limit)
                THEN Truncate(skipped, Unwrap(ret.filter.limit))
                ELSE skipped

\* C10: the receipts list_receipts returns are in ledger order, oldest
\* first: chain_position is strictly increasing along the result.
Claim_C10_LedgerOrder ==
    ret.op \in {"list_receipts", "receipts_for_action"} =>
        \A i, j \in 1..Len(ret.result.value) :
            i < j => ret.result.value[i].chain_position
                        < ret.result.value[j].chain_position

\* A filtered list of two receipts out of a ledger of three.
Witness_C10_FilteredPair ==
    /\ ret.op = "list_receipts"
    /\ IsSome(ret.filter.action_type)
    /\ Len(ret.result.value) = 2
    /\ Len(receipts) = 3

\* The receipts of rs that were appended with action type x, in ledger order.
AppendedWith(rs, x) == SelectSeq(rs, LAMBDA r : r.action.action_type = x)

\* The result and the action type of a call that lists by action type alone.
ByActionCall ==
    \/ ret.op = "receipts_for_action"
    \/ /\ ret.op = "list_receipts"
       /\ IsSome(ret.filter.action_type)
       /\ ret.filter = FilterAction(ReceiptFilterNew, Unwrap(ret.filter.action_type))

ByActionType ==
    IF ret.op = "receipts_for_action" THEN ret.action_type
    ELSE Unwrap(ret.filter.action_type)

\* C11: list_receipts filtered by action_type = X, and receipts_for_action(X),
\* return exactly the receipts appended with action type X, each the stored
\* receipt with the id and chain_position it got at append; after three
\* appends of which only the second has type X the result is one receipt
\* whose chain_position is 2.
Claim_C11_ReceiptsForAction ==
    (ret.op \in {"receipts_for_action", "list_receipts"} /\ ByActionCall) =>
        LET result == ret.result.value
            x == ByActionType
        IN  /\ ret.result.ok
            /\ result = AppendedWith(LedgerSeen, x)
            /\ \A i \in 1..Len(result) :
                  /\ result[i].chain_position \in 1..Len(LedgerSeen)
                  /\ result[i] = LedgerSeen[result[i].chain_position]
            /\ ( /\ Len(LedgerSeen) = 3
                 /\ \A k \in 1..3 : (LedgerSeen[k].action.action_type = x) <=> (k = 2) )
               => /\ Len(result) = 1
                  /\ result[1].chain_position = 2

\* Three appends, only the second of type X, and receipts_for_action(X)
\* has returned one receipt.
Witness_C11_OnlySecond ==
    /\ ret.op = "receipts_for_action"
    /\ Len(LedgerSeen) = 3
    /\ \A k \in 1..3 :
          (LedgerSeen[k].action.action_type = ret.action_type) <=> (k = 2)
    /\ Len(ret.result.value) = 1

----------------------------------------------------------------------------
\* The claims about grounding

\* The corpus ground reads: the nodes, or the current workspace's symbol names.
GroundOps == {"MockMemory::ground", "MockCodebase::ground"}

\* Some corpus item matches the claim of the ground call that has returned:
\* a node whose content holds the claim, or a symbol whose name the claim holds.
SomeItemMatches ==
    IF ret.op = "MockMemory::ground"
    THEN \E i \in 1..Len(nodes) :
            Contains(ToLowercase(nodes[i][2]), ToLowercase(ret.claim))
    ELSE \E i \in 1..Len(workspaces[current_workspace].symbols) :
            Contains(ToLowercase(ret.claim),
                     ToLowercase(workspaces[current_workspace].symbols[i][1]))

\* C13: when no corpus item matches the claim (the empty corpus included),
\* ground returns Ok with status Ungrounded, confidence 0.0 and no evidence.
Claim_C13_NoMatchUngrounded ==
    (ret.op \in GroundOps /\ ~SomeItemMatches) =>
        /\ ret.result.ok
        /\ ret.result.value.status = "Ungrounded"
        /\ ret.result.value.confidence = 0
        /\ ret.result.value.evidence = <<>>

\* ground has returned Ungrounded over a corpus that is not empty.
Witness_C13_NoMatch ==
    /\ ret.op = "MockMemory::ground"
    /\ Len(nodes) >= 2
    /\ ~SomeItemMatches
    /\ ret.result.value.status = "Ungrounded"

\* The coverage ratio of a claim by an item, in hundredths: the claim's
\* tokens that are tokens of the item, over all the claim's tokens.
CoverageRatio(claim, content) ==
    LET claim_tokens == split_whitespace(ToLowercase(claim))
        item_tokens == Range(split_whitespace(ToLowercase(content)))
        found == Cardinality({ i \in 1..Len(claim_tokens) :
                                 claim_tokens[i] \in item_tokens })
    IN  IF Len(claim_tokens) = 0 THEN 0
        ELSE (found * 100) \div Len(claim_tokens)

MaxCoverage(claim) ==
    FoldMax([ i \in 1..Len(nodes) |-> CoverageRatio(claim, nodes[i][2]) ])

\* C14: when some node's coverage ratio of the claim is above 0.8, ground
\* returns Verified with confidence the maximum coverage ratio over the nodes.
Claim_C14_MaxCoverageVerified ==
    (ret.op = "MockMemory::ground" /\ MaxCoverage(ret.claim) > 80) =>
        /\ ret.result.value.status = "Verified"
        /\ ret.result.value.confidence = MaxCoverage(ret.claim)

\* C15: ground classifies by the thresholds: Verified exactly when the
\* confidence is above 0.8, Partial exactly when it is above 0.0 and at most
\* 0.8, Ungrounded (confidence 0.0) exactly when no item matches.
Claim_C15_Thresholds ==
    (ret.op \in GroundOps /\ ret.result.ok) =>
        LET r == ret.result.value IN
        /\ r.status = "Verified" <=> r.confidence > 80
        /\ r.status = "Partial" <=> (r.confidence > 0 /\ r.confidence <= 80)
        /\ r.status = "Ungrounded" <=> ~SomeItemMatches
        /\ r.status = "Ungrounded" => r.confidence = 0

\* C16: every result of ground has confidence 0.0 if it is Ungrounded, has
\* evidence unless it is Ungrounded, and has suggestions only if it is
\* Ungrounded.
Claim_C16_ResultInvariants ==
    (ret.op \in GroundOps /\ ret.result.ok) =>
        LET r == ret.result.value IN
        /\ r.status = "Ungrounded" => r.confidence = 0
        /\ r.evidence = <<>> => r.status = "Ungrounded"
        /\ r.suggestions /= <<>> => r.status = "Ungrounded"

\* MockCodebase::ground has returned Verified, with evidence and no suggestion.
Witness_C16_VerifiedWithEvidence ==
    /\ ret.op = "MockCodebase::ground"
    /\ ret.result.ok
    /\ ret.result.value.status = "Verified"
    /\ Len(ret.result.value.evidence) >= 1
    /\ ret.result.value.suggestions = <<>>

\* C17: suggest(query, limit) returns at most limit items, for limit 0 too,
\* and an Ungrounded result of ground carries at most 3 suggestions.
Claim_C17_SuggestionsBounded ==
    /\ (ret.op \in {"MockMemory::suggest", "MockCodebase::suggest"} /\ ret.result.ok)
          => Len(ret.result.value) <= ret.limit
    /\ (ret.op \in GroundOps /\ ret.result.ok)
          => Len(ret.result.value.suggestions) <= 3

\* suggest was asked for fewer items than the corpus holds.
Witness_C17_LimitBelowCorpus ==
    /\ ret.op = "MockMemory::suggest"
    /\ ret.limit < Len(nodes)
    /\ Len(ret.result.value) = ret.limit
    /\ ret.limit >= 1

----------------------------------------------------------------------------
\* The claims about snapshots

ExportOps == {"MockMemory::export_session", "MockCodebase::export_workspace"}

ImportOps == {"MockMemory::import_session", "MockCodebase::import_workspace"}

\* The snapshots the caller of the sister under test may hold.
SnapshotsHeld == IF sut = "memory" THEN MemorySnapshots ELSE CodebaseSnapshots

\* The values one byte of a payload is changed to in the claims below.
ChangedBytes == {"#", "0", "]", "a"}

\* C18: verify(snapshot) is true exactly when the checksum is the digest of
\* the data; it is true of every snapshot an export has just returned, and
\* false of that snapshot with any one byte of its payload changed and its
\* checksum kept.
Claim_C18_VerifyIsChecksum ==
    /\ \A s \in SnapshotsHeld : verify(s) <=> (s.checksum = Blake3(s.data))
    /\ (ret.op \in ExportOps /\ ret.result.ok) =>
          LET s == ret.result.value IN
          /\ verify(s)
          /\ \A k \in 1..Len(s.data) :
                \A c \in ChangedBytes \ {SubSeq(s.data, k, k)} :
                    ~verify([s EXCEPT !.data = ChangeByte(s.data, k, c)])

\* export_session has returned the snapshot of two nodes.
Witness_C18_Exported ==
    /\ ret.op = "MockMemory::export_session"
    /\ ret.result.ok
    /\ ret.result.value.context_info.item_count = 2
    /\ Len(ret.result.value.data) > 2

\* C19: an import of a snapshot that fails verify returns ChecksumMismatch and
\* leaves the importing sister as it was: its current session or workspace,
\* its sessions or workspaces, its items and its events.
Claim_C19_FailedImportChangesNothing ==
    [][ (ret'.op \in ImportOps /\ ~verify(ret'.snapshot)) =>
            /\ ~ret'.result.ok
            /\ ret'.result.error.code = "ChecksumMismatch"
            /\ UNCHANGED <<memoryVars, codebaseVars, nextId>> ]_vars

\* An import has failed on a sister that has a session and a node.
Witness_C19_RejectedImport ==
    /\ ret.op = "MockMemory::import_session"
    /\ ~ret.result.ok
    /\ ret.result.error.code = "ChecksumMismatch"
    /\ IsSome(session_id)
    /\ Len(nodes) >= 1

\* C20: an import succeeds only if the reader can read the snapshot's
\* version (snapshot major <= reader major); a snapshot of a newer major
\* version is refused with a VersionMismatch error and changes no state.
Claim_C20_VersionChecked ==
    ret.op \in ImportOps =>
        /\ ret.result.ok => can_read(SisterVersion, ret.snapshot.version)
        /\ ~can_read(SisterVersion, ret.snapshot.version) =>
              /\ ~ret.result.ok
              /\ ret.result.error.code = "VersionMismatch"


\* C21: export followed by import is a round trip.  When an intact snapshot
\* is imported into a MockMemory that holds no nodes, the MockMemory then holds
\* the nodes the snapshot's payload was serialized from; when it is imported
\* into a MockCodebase, the workspace the import returns holds the symbols the
\* payload was serialized from.
Claim_C21_ExportImportRoundTrip ==
    [][ /\ ( /\ sut = "memory"
             /\ nodes = <<>>
             /\ ret'.op = "MockMemory::import_session"
             /\ ret'.result.ok )
           => NodesToJson(nodes') = ret'.snapshot.data
        /\ ( /\ sut = "codebase"
             /\ ret'.op = "MockCodebase::import_workspace"
             /\ ret'.result.ok )
           => /\ ret'.result.value \in DOMAIN workspaces'
              /\ SymbolsToJson(workspaces'[ret'.result.value].symbols)
                     = ret'.snapshot.data ]_vars


----------------------------------------------------------------------------
\* Claims about errors

ErrorOps == {"SisterError::new"} \cup ErrorConstructors

NotFoundCodes == {"NotFound", "ContextNotFound", "EvidenceNotFound"}
InvalidInputCodes == {"InvalidInput"}
InfrastructureCodes == {"StorageError", "NetworkError", "Timeout"}

\* C22: an error carries the recoverability of its class.  Every SisterError
\* created with a not-found, invalid-input or infrastructure code is
\* recoverable; every one created with ChecksumMismatch or VersionMismatch is
\* not recoverable, and one with ChecksumMismatch has severity Fatal.
Claim_C22_ClassRecoverability ==
    ret.op \in ErrorOps =>
        LET e == ret.result
        IN  /\ e.code \in NotFoundCodes \cup InvalidInputCodes \cup InfrastructureCodes
                   => e.recoverable
            /\ e.code \in {"ChecksumMismatch", "VersionMismatch"} => ~e.recoverable
            /\ e.code = "ChecksumMismatch" => e.severity = "Fatal"


----------------------------------------------------------------------------
\* Claims about sessions

\* C23: session tracking of a MockMemory.  current_session() is None before
\* any session is started; a start_session call makes it the id the call
\* returned, an end_session call makes it None, current_session() returns it
\* as it is, and no other call (import_session aside, which starts a session
\* of its own) changes it.  So after any sequence of start_session and
\* end_session calls it is None if none was started or end_session came last,
\* and the id the most recent start_session returned otherwise.
Claim_C23_CurrentSession ==
    /\ sut = "memory" => session_id = None
    /\ [][ sut = "memory" =>
             CASE ret'.op = "MockMemory::start_session" ->
                      /\ ret'.result.ok
                      /\ session_id' = Some(ret'.result.value)
                      /\ \A i \in 1..Len(sessions) :
                             sessions[i].id /= ret'.result.value
               [] ret'.op = "MockMemory::end_session" -> session_id' = None
               [] ret'.op = "MockMemory::current_session" ->
                      /\ ret'.result = session_id
                      /\ session_id' = session_id
               [] ret'.op = "MockMemory::import_session" -> TRUE
               [] OTHER -> session_id' = session_id ]_vars

\* Two sessions have been started, and current_session() returned the id of
\* the second one.
Witness_C23_SecondSessionCurrent ==
    /\ sut = "memory"
    /\ ret.op = "MockMemory::current_session"
    /\ Len(sessions) = 2
    /\ ret.result = Some(sessions[2].id)
    /\ ret.result /= Some(sessions[1].id)

\* C24: list_sessions returns every session ever started, the most recent
\* first: the ids a MockMemory hands out grow with time, so the list is in
\* falling order of id and its first entry is the session started last.
Claim_C24_ListSessionsNewestFirst ==
    ( sut = "memory" /\ ret.op = "MockMemory::list_sessions" ) =>
        LET listed == ret.result.value
        IN  /\ ret.result.ok
            /\ { listed[i].id : i \in 1..Len(listed) } = 1..(nextId - 1)
            /\ \A i, j \in 1..Len(listed) : i < j => listed[i].id > listed[j].id


----------------------------------------------------------------------------
\* Claims about workspaces

\* C25: the default context always exists.  Whatever workspace calls a
\* MockCodebase has served, the workspace with id ContextId::default_context()
\* is among its workspaces, and every list_workspaces result lists it.
Claim_C25_DefaultWorkspaceKept ==
    sut = "codebase" =>
        /\ DefaultContext \in DOMAIN workspaces
        /\ ret.op = "MockCodebase::list_workspaces" =>
               \E i \in 1..Len(ret.result.value) :
                   ret.result.value[i].id = DefaultContext

\* C26: the active workspace cannot be deleted.  delete_workspace of the
\* current workspace returns an error and leaves the workspaces and the
\* current id as they were; so the current id always names a workspace that
\* exists, and current_workspace() returns such an id.
Claim_C26_ActiveWorkspaceKept ==
    /\ [](sut = "codebase" =>
            /\ current_workspace \in DOMAIN workspaces
            /\ ret.op = "MockCodebase::current_workspace" =>
                   ret.result \in DOMAIN workspaces)
    /\ [][ ( /\ sut = "codebase"
             /\ ret'.op = "MockCodebase::delete_workspace"
             /\ ret'.id = current_workspace )
           => /\ ~ret'.result.ok
              /\ UNCHANGED <<workspaces, current_workspace>> ]_vars

\* A created workspace was made current and its deletion was refused.
Witness_C26_DeleteRefused ==
    /\ sut = "codebase"
    /\ ret.op = "MockCodebase::delete_workspace"
    /\ ret.id = current_workspace
    /\ ret.id /= DefaultContext
    /\ ~ret.result.ok
    /\ ret.result.error.code = "InvalidState"

\* The calls that take the id of an existing workspace.
ByIdOps ==
    { "MockCodebase::switch_workspace", "MockCodebase::rename_workspace",
      "MockCodebase::delete_workspace", "MockCodebase::export_workspace" }

\* C27: an unknown workspace id is rejected.  switch_workspace,
\* rename_workspace, delete_workspace and export_workspace called with an id
\* that names no workspace fail with ContextNotFound and leave the workspaces
\* and the current id as they were.
Claim_C27_UnknownIdRejected ==
    [][ ( /\ sut = "codebase"
          /\ ret'.op \in ByIdOps
          /\ ret'.id \notin DOMAIN workspaces )
        => /\ ~ret'.result.ok
           /\ ret'.result.error.code = "ContextNotFound"
           /\ UNCHANGED <<workspaces, current_workspace>> ]_vars


----------------------------------------------------------------------------
\* Claims about events

\* C28: the recent buffer is bounded.  However emit is called, by one thread
\* or by several, the buffer as any caller finds it (the mutex free) holds at
\* most MaxRecent events; what it holds are the events emitted last, in the
\* order they were emitted, the oldest having been dropped when one more than
\* MaxRecent were there; and recent(limit) returns min(limit, stored) of
\* them, the newest first.
Claim_C28_RecentBounded ==
    sut = "events" =>
        /\ recentLock = Free => Len(events) = Min(emitted, MaxRecent)
        /\ \A i \in 1..Len(events) : events[i].id = emitted - Len(events) + i
        /\ ret.op = "EventManager::recent" =>
               /\ Len(ret.result) = Min(ret.limit, Len(events))
               /\ \A i \in 1..Len(ret.result) : ret.result[i].id = emitted - i + 1

\* One event more than the buffer holds has been emitted, the first one is
\* gone, and recent was asked for more events than there are.
Witness_C28_OldestDropped ==
    /\ sut = "events"
    /\ emitted = MaxRecent + 1
    /\ Len(events) = MaxRecent
    /\ events[1].id = 2
    /\ ret.op = "EventManager::recent"
    /\ ret.limit > Len(events)
    /\ Len(ret.result) = MaxRecent


----------------------------------------------------------------------------
\* Claims about the mutexes of a MockIdentity

\* The threads that are inside a call.
Calling == { t \in Threads : pc[t] /= "idle" }

----------------------------------------------------------------------------
\* Claims about MockMemory::ground on a matched claim

\* C30: a matched claim is fully covered.  When some node contains the claim
\* as a substring, letter case aside, and the claim has at least one word,
\* MockMemory::ground returns Verified with confidence 1.0; it returns
\* Partial only for a claim without words, and then with confidence 0.0.
Claim_C30_MatchedIsVerified ==
    ( sut = "memory" /\ ret.op = "MockMemory::ground" ) =>
        LET result == ret.result.value
            claim_lower == ToLowercase(ret.claim)
            words == split_whitespace(claim_lower)
            matched == \E i \in 1..Len(nodes) :
                           Contains(ToLowercase(nodes[i][2]), claim_lower)
        IN  /\ ( matched /\ Len(words) >= 1 ) =>
                   /\ result.status = "Verified"
                   /\ result.confidence = 100
            /\ result.status = "Partial" =>
                   /\ Len(words) = 0
                   /\ result.confidence = 0

\* A claim of two words was grounded against a node that contains it in
\* other letter case and a node that does not contain it.
Witness_C30_TwoWordsVerified ==
    /\ sut = "memory"
    /\ ret.op = "MockMemory::ground"
    /\ Len(split_whitespace(ToLowercase(ret.claim))) = 2
    /\ ret.result.value.status = "Verified"
    /\ \E i, j \in 1..Len(nodes) :
           /\ Contains(ToLowercase(nodes[i][2]), ToLowercase(ret.claim))
           /\ ~Contains(nodes[i][2], ret.claim)
           /\ ~Contains(ToLowercase(nodes[j][2]), ToLowercase(ret.claim))

====
